---- MODULE Spec2Model ----
(***************************************************************************)
(* Model of pkg/provider/aws/client.go: the AwsClient facade, its two      *)
(* constructors (NewAwsClient, NewAwsClientWithInput) and its fourteen     *)
(* forwarding methods.  The AWS SDK and the Go standard library are the    *)
(* environment: what filepath.Abs, session creation, the credential probe  *)
(* and the sub-clients answer is chosen nondeterministically.              *)
(***************************************************************************)
EXTENDS Naturals, Sequences, FiniteSets, TLC

VARIABLES call, facade, built, last

vars == <<call, facade, built, last>>

(***************************************************************************)
(* Throughout, the fields of a record are written in one fixed order (the  *)
(* order in which the names first occur in this module), which is the      *)
(* order TLC keeps them in.                                                *)
(***************************************************************************)

(***************************************************************************)
(* Bounds of the model.                                                    *)
(***************************************************************************)
\* longest config-file path, counted in path elements
MaxPathLen == 2

(***************************************************************************)
(* Errors.  A Go error value is nil, an awserr.Error (with a code), a      *)
(* plain error of some other type, or a pkg/errors wrapper around a cause. *)
(***************************************************************************)
NilErr == [kind |-> "nil", code |-> "", msg |-> "", cause |-> <<>>]

AwsErr(code) == [kind |-> "awserr", code |-> code, msg |-> "", cause |-> <<>>]

PlainErr(msg) == [kind |-> "plain", code |-> "", msg |-> msg, cause |-> <<>>]

\* errors.Wrap: nil stays nil, anything else is wrapped with the message
Wrap(err, msg) ==
    IF err = NilErr THEN NilErr
    ELSE [kind |-> "wrapped", code |-> "", msg |-> msg, cause |-> <<err>>]

\* what sess.Config.Credentials.Get() may return as its error
ProbeErrs ==
    {NilErr, AwsErr("NoCredentialProviders"), AwsErr("SharedCredsLoad"),
     PlainErr("credential process failed")}

\* what session.NewSessionWithOptions / session.NewSession may return
SessionErrs == {NilErr, AwsErr("SharedConfigLoadError"), PlainErr("bad config")}

\* what os.Getwd may return inside filepath.Abs
GetwdErrs == {NilErr, PlainErr("getwd: no such file or directory")}

\* what a sub-client operation may return
OpErrs == {NilErr, AwsErr("AccessDenied")}

(***************************************************************************)
(* Paths.  A path string is modelled by whether it is rooted and by its    *)
(* elements; the empty string is the unrooted path with no element.        *)
(***************************************************************************)
Elems == {"a", ".", ".."}

EmptyPath == [abs |-> FALSE, segs |-> <<>>]

SeqsUpTo(S, n) == UNION {[1..k -> S] : k \in 0..n}

Paths == [abs : BOOLEAN, segs : SeqsUpTo(Elems, MaxPathLen)]

WorkDirs == {[abs |-> TRUE, segs |-> <<"home", "u">>]}

IsAbs(p) == p.abs

RECURSIVE CleanSegs(_, _, _)
\* filepath.Clean, element by element: "." is dropped, ".." removes the
\* element before it, is dropped at the root and kept at the head of an
\* unrooted path
CleanSegs(rooted, done, rest) ==
    IF rest = <<>> THEN done
    ELSE LET e == Head(rest)
             n == Len(done)
         IN  IF e = "." THEN CleanSegs(rooted, done, Tail(rest))
             ELSE IF e = ".." THEN
                    IF n > 0 /\ done[n] # ".."
                    THEN CleanSegs(rooted, SubSeq(done, 1, n - 1), Tail(rest))
                    ELSE IF rooted THEN CleanSegs(rooted, done, Tail(rest))
                    ELSE CleanSegs(rooted, Append(done, e), Tail(rest))
             ELSE CleanSegs(rooted, Append(done, e), Tail(rest))

Clean(p) ==
    LET s == CleanSegs(p.abs, <<>>, p.segs)
    IN  IF ~p.abs /\ s = <<>> THEN [abs |-> FALSE, segs |-> <<".">>]
        ELSE [abs |-> p.abs, segs |-> s]

\* filepath.Join(wd, path)
Join(wd, p) == Clean([abs |-> wd.abs, segs |-> wd.segs \o p.segs])

\* filepath.Abs: a rooted path is cleaned; another one is joined to the
\* working directory, and fails when the working directory is unknown
Abs(path, wd, wdErr) ==
    IF IsAbs(path) THEN [err |-> NilErr, path |-> Clean(path)]
    ELSE IF wdErr # NilErr THEN [err |-> wdErr, path |-> EmptyPath]
    ELSE [err |-> NilErr, path |-> Join(wd, path)]

(***************************************************************************)
(* Sessions, sub-clients and the facade.                                   *)
(***************************************************************************)
Profiles == {"default", "osd"}

Regions == {"us-east-1", "eu-west-1"}

\* the (profile, region) pairs the caller passes to NewAwsClient
ProfileRegions == {<<"default", "us-east-1">>, <<"osd", "eu-west-1">>}

Keys == {"AKIA1", "AKIA2"}

NoCreds == <<>>

\* a nil *session.Session
NilSession == [ref |-> "nil"]

\* a nil sub-client interface value
NilSub == [ref |-> "nil"]

\* a nil Client
NilClient == [ref |-> "nil"]

\* a nil *AwsClientInput
NilInput == [ref |-> "nil"]

\* type AwsClientInput
AwsClientInput(ak, sk, tok, region) ==
    [ref |-> "input", AccessKeyID |-> ak, SecretAccessKey |-> sk,
     SessionToken |-> tok, Region |-> region]

ClientInputs ==
    {NilInput} \cup
    {AwsClientInput(ak, "secret", tok, r) :
        ak \in Keys, tok \in {"", "tok"}, r \in Regions}

\* session.NewSessionWithOptions / session.NewSession: the environment
\* decides whether the session can be built; a built session keeps the
\* configuration it was built from
NewSession(cfg, envErr) ==
    IF envErr # NilErr THEN [err |-> envErr, sess |-> NilSession]
    ELSE [err |-> NilErr, sess |-> [ref |-> "session", cfg |-> cfg]]

\* iam.New(sess), sts.New(sess), s3.New(sess)
NewSub(service, s) == [ref |-> "sub", sess |-> s, svc |-> service]

\* the struct literal &AwsClient{...} of both constructors
AwsClient(sess) ==
    [ref |-> "client",
     iamClient |-> NewSub("iam", sess),
     stsClient |-> NewSub("sts", sess),
     s3Client  |-> NewSub("s3", sess)]

\* variant: the path is put in the options as supplied, unresolved
SessionOptionsUnresolved(profile, region, configFile, absCfgPath) ==
    [Region |-> region, Profile |-> profile, Credentials |-> NoCreds,
     SharedConfigFiles |->
        IF configFile # EmptyPath THEN <<configFile>> ELSE <<>>]

\* variant: the config-file option is set whether or not a path was given
SessionOptionsAlwaysFile(profile, region, configFile, absCfgPath) ==
    [Region |-> region, Profile |-> profile, Credentials |-> NoCreds,
     SharedConfigFiles |-> <<absCfgPath>>]

\* session.Options as NewAwsClient fills it in
SessionOptions(profile, region, configFile, absCfgPath) ==
    [Region |-> region, Profile |-> profile, Credentials |-> NoCreds,
     SharedConfigFiles |->
        IF configFile # EmptyPath THEN <<absCfgPath>> ELSE <<>>]

\* aws.Config as NewAwsClientWithInput fills it in
StaticConfig(input) ==
    [Region |-> input.Region, Profile |-> "",
     Credentials |-> <<input.AccessKeyID, input.SecretAccessKey,
                       input.SessionToken>>,
     SharedConfigFiles |-> <<>>]

\* variant: any non-nil probe error counts as a failure
ProbeFailedAnyError(err) == err # NilErr

\* the type assertion err.(awserr.Error) that guards the error return
ProbeFailed(err) == err.kind = "awserr"

\* the error NewAwsClient returns for a failed probe (both switch arms)
ProbeError(err) == Wrap(err, "Could not create AWS session")

\* the calls a constructor made on the environment and what they answered:
\* filepath.Abs (and the working directory it read), session creation (and
\* the configuration it was given), the credential probe
Trace(absCalled, wdRead, absErr, sessCfg, sessErr, probed, probeErr) ==
    [absCalled |-> absCalled, wdRead |-> wdRead, absErr |-> absErr,
     sessCfg |-> sessCfg, sessErr |-> sessErr, probed |-> probed,
     probeErr |-> probeErr]

\* what a constructor call leaves behind: its outcome (client and err, or a
\* panic) and its calls on the environment
Outcome(ctor, args, client, err, panicked, trace) ==
    [err |-> err, ctor |-> ctor, args |-> args, client |-> client,
     panicked |-> panicked, trace |-> trace]

\* func NewAwsClient(profile, region, configFile string) (Client, error)
NewAwsClient(profile, region, configFile, wd, wdErr, sessErr, probeErr) ==
    LET args == [region |-> region, profile |-> profile,
                 configFile |-> configFile]
        needAbs == configFile # EmptyPath
        a == IF needAbs THEN Abs(configFile, wd, wdErr)
             ELSE [err |-> NilErr, path |-> EmptyPath]
        wdRead == IF needAbs /\ ~IsAbs(configFile) /\ wdErr = NilErr
                  THEN <<wd>> ELSE <<>>
        opt == SessionOptions(profile, region, configFile, a.path)
        s == NewSession(opt, sessErr)
    IN  IF a.err # NilErr
        THEN Outcome("NewAwsClient", args, NilClient, a.err, FALSE,
                     Trace(needAbs, wdRead, a.err, <<>>, NilErr, FALSE,
                           NilErr))
        ELSE IF s.err # NilErr
        THEN \* session.Must panics
             Outcome("NewAwsClient", args, NilClient, NilErr, TRUE,
                     Trace(needAbs, wdRead, NilErr, <<opt>>, s.err, FALSE,
                           NilErr))
        ELSE IF ProbeFailed(probeErr)
        THEN Outcome("NewAwsClient", args, NilClient, ProbeError(probeErr),
                     FALSE,
                     Trace(needAbs, wdRead, NilErr, <<opt>>, NilErr, TRUE,
                           probeErr))
        ELSE Outcome("NewAwsClient", args, AwsClient(s.sess), NilErr, FALSE,
                     Trace(needAbs, wdRead, NilErr, <<opt>>, NilErr, TRUE,
                           probeErr))

\* variant: the session error is wrapped like the probe error of NewAwsClient
NewAwsClientWithInputWrapping(input, sessErr) ==
    IF input = NilInput
    THEN Outcome("NewAwsClientWithInput", input, NilClient, NilErr, TRUE,
                 Trace(FALSE, <<>>, NilErr, <<>>, NilErr, FALSE, NilErr))
    ELSE LET config == StaticConfig(input)
             s == NewSession(config, sessErr)
         IN  IF s.err # NilErr
             THEN Outcome("NewAwsClientWithInput", input, NilClient,
                          ProbeError(s.err), FALSE,
                          Trace(FALSE, <<>>, NilErr, <<config>>, s.err,
                                FALSE, NilErr))
             ELSE Outcome("NewAwsClientWithInput", input, AwsClient(s.sess),
                          NilErr, FALSE,
                          Trace(FALSE, <<>>, NilErr, <<config>>, NilErr,
                                FALSE, NilErr))

\* func NewAwsClientWithInput(input *AwsClientInput) (Client, error)
NewAwsClientWithInput(input, sessErr) ==
    IF input = NilInput
    THEN \* input.AccessKeyID dereferences a nil pointer
         Outcome("NewAwsClientWithInput", input, NilClient, NilErr, TRUE,
                 Trace(FALSE, <<>>, NilErr, <<>>, NilErr, FALSE, NilErr))
    ELSE LET config == StaticConfig(input)
             s == NewSession(config, sessErr)
         IN  IF s.err # NilErr
             THEN Outcome("NewAwsClientWithInput", input, NilClient, s.err,
                          FALSE,
                          Trace(FALSE, <<>>, NilErr, <<config>>, s.err,
                                FALSE, NilErr))
             ELSE Outcome("NewAwsClientWithInput", input, AwsClient(s.sess),
                          NilErr, FALSE,
                          Trace(FALSE, <<>>, NilErr, <<config>>, NilErr,
                                FALSE, NilErr))

(***************************************************************************)
(* The forwarding methods.  A sub-client is a mock: `reply` is what it     *)
(* answers to the call.  A method yields the calls it made on sub-clients, *)
(* what it returns, and the receiver as the method leaves it.              *)
(***************************************************************************)
\* pointers to request structs (nil included) and to response structs
Inputs == {"nil", "in1"}

Outputs == {"nil", "out1"}

Replies == [err : OpErrs, resp : Outputs]

\* one call c.<sub>.<op>(input) whose results are returned as they are
SubCall(c, target, name, input, reply) ==
    [err |-> reply.err, resp |-> reply.resp,
     calls |-> <<[input |-> input, sub |-> target, op |-> name]>>,
     self |-> c]

AssumeRole(c, input, reply) ==
    SubCall(c, c.stsClient, "AssumeRole", input, reply)

GetCallerIdentity(c, input, reply) ==
    SubCall(c, c.stsClient, "GetCallerIdentity", input, reply)

GetFederationToken(c, input, reply) ==
    SubCall(c, c.stsClient, "GetFederationToken", input, reply)

\* variant: the call is made again when the sub-client returns an error
ListBucketsRetrying(c, input, reply) ==
    LET one == [input |-> input, sub |-> c.s3Client, op |-> "ListBuckets"]
    IN  [err |-> reply.err, resp |-> reply.resp,
         calls |-> IF reply.err # NilErr THEN <<one, one>> ELSE <<one>>,
         self |-> c]

ListBuckets(c, input, reply) ==
    SubCall(c, c.s3Client, "ListBuckets", input, reply)

DeleteBucket(c, input, reply) ==
    SubCall(c, c.s3Client, "DeleteBucket", input, reply)

ListObjects(c, input, reply) ==
    SubCall(c, c.s3Client, "ListObjects", input, reply)

\* variant: the sub-client's error is wrapped before it is returned
DeleteObjectsWrapping(c, input, reply) ==
    [err |-> Wrap(reply.err, "DeleteObjects failed"), resp |-> reply.resp,
     calls |-> <<[input |-> input, sub |-> c.s3Client,
                  op |-> "DeleteObjects"]>>,
     self |-> c]

DeleteObjects(c, input, reply) ==
    SubCall(c, c.s3Client, "DeleteObjects", input, reply)

CreateAccessKey(c, input, reply) ==
    SubCall(c, c.iamClient, "CreateAccessKey", input, reply)

DeleteAccessKey(c, input, reply) ==
    SubCall(c, c.iamClient, "DeleteAccessKey", input, reply)

ListAccessKeys(c, input, reply) ==
    SubCall(c, c.iamClient, "ListAccessKeys", input, reply)

GetUser(c, input, reply) ==
    SubCall(c, c.iamClient, "GetUser", input, reply)

CreateUser(c, input, reply) ==
    SubCall(c, c.iamClient, "CreateUser", input, reply)

ListUsers(c, input, reply) ==
    SubCall(c, c.iamClient, "ListUsers", input, reply)

\* variant: the method drops the iam sub-client after a failed call
AttachUserPolicyResetting(c, input, reply) ==
    [err |-> reply.err, resp |-> reply.resp,
     calls |-> <<[input |-> input, sub |-> c.iamClient,
                  op |-> "AttachUserPolicy"]>>,
     self |-> IF reply.err # NilErr THEN [c EXCEPT !.iamClient = NilSub]
              ELSE c]

AttachUserPolicy(c, input, reply) ==
    SubCall(c, c.iamClient, "AttachUserPolicy", input, reply)

\* the methods of interface Client
Methods ==
    {"AssumeRole", "GetCallerIdentity", "GetFederationToken",
     "ListBuckets", "DeleteBucket", "ListObjects", "DeleteObjects",
     "CreateAccessKey", "DeleteAccessKey", "ListAccessKeys", "GetUser",
     "CreateUser", "ListUsers", "AttachUserPolicy"}

\* a call through the Client interface reaches the AwsClient method of
\* that name
Dispatch(m, c, input, reply) ==
    CASE m = "AssumeRole" -> AssumeRole(c, input, reply)
      [] m = "GetCallerIdentity" -> GetCallerIdentity(c, input, reply)
      [] m = "GetFederationToken" -> GetFederationToken(c, input, reply)
      [] m = "ListBuckets" -> ListBuckets(c, input, reply)
      [] m = "DeleteBucket" -> DeleteBucket(c, input, reply)
      [] m = "ListObjects" -> ListObjects(c, input, reply)
      [] m = "DeleteObjects" -> DeleteObjects(c, input, reply)
      [] m = "CreateAccessKey" -> CreateAccessKey(c, input, reply)
      [] m = "DeleteAccessKey" -> DeleteAccessKey(c, input, reply)
      [] m = "ListAccessKeys" -> ListAccessKeys(c, input, reply)
      [] m = "GetUser" -> GetUser(c, input, reply)
      [] m = "CreateUser" -> CreateUser(c, input, reply)
      [] m = "ListUsers" -> ListUsers(c, input, reply)
      [] m = "AttachUserPolicy" -> AttachUserPolicy(c, input, reply)

(***************************************************************************)
(* The state machine.  A behaviour follows one caller: it calls one        *)
(* constructor and then, if it got a client, calls methods on it in any    *)
(* order.  call is the constructor call, facade the client the caller      *)
(* holds, built the client as the constructor returned it, last the last   *)
(* forwarding call on the facade.                                          *)
(***************************************************************************)
NoCall ==
    Outcome("none", <<>>, NilClient, NilErr, FALSE,
            Trace(FALSE, <<>>, NilErr, <<>>, NilErr, FALSE, NilErr))

NoForward ==
    [err |-> NilErr, input |-> "nil", resp |-> "nil",
     reply |-> [err |-> NilErr, resp |-> "nil"], calls |-> <<>>,
     method |-> "none"]

Init ==
    /\ call = NoCall
    /\ facade = NilClient
    /\ built = NilClient
    /\ last = NoForward

\* a constructor returned (or panicked): the caller holds what it returned
Constructed(out) ==
    /\ call' = out
    /\ facade' = out.client
    /\ built' = out.client
    /\ last' = NoForward

CallNewAwsClient ==
    /\ call = NoCall
    /\ \E pr \in ProfileRegions, configFile \in Paths, wd \in WorkDirs,
          wdErr \in GetwdErrs, sessErr \in SessionErrs,
          probeErr \in ProbeErrs :
        Constructed(NewAwsClient(pr[1], pr[2], configFile, wd, wdErr,
                                 sessErr, probeErr))

CallNewAwsClientWithInput ==
    /\ call = NoCall
    /\ \E input \in ClientInputs, sessErr \in SessionErrs :
        Constructed(NewAwsClientWithInput(input, sessErr))

\* the caller invokes method m of the client it holds
CallMethod(m) ==
    /\ facade # NilClient
    /\ \E input \in Inputs, reply \in Replies :
        LET r == Dispatch(m, facade, input, reply)
        IN  /\ last' = [err |-> r.err, input |-> input, resp |-> r.resp,
                        reply |-> reply, calls |-> r.calls, method |-> m]
            /\ facade' = r.self
    /\ UNCHANGED <<call, built>>

Next ==
    \/ CallNewAwsClient
    \/ CallNewAwsClientWithInput
    \/ \E m \in Methods : CallMethod(m)

Spec == Init /\ [][Next]_vars

(***************************************************************************)
(* Properties.                                                             *)
(***************************************************************************)
\* the error errors.Wrap(err, "Could not create AWS session") builds
WrappedSessionError(err) ==
    [kind |-> "wrapped", code |-> "", msg |-> "Could not create AWS session",
     cause |-> <<err>>]

\* a non-nil client whose three sub-clients are non-nil, each for its own
\* service, all built from one and the same session
WholeClient(c) ==
    /\ c # NilClient
    /\ c.iamClient # NilSub /\ c.stsClient # NilSub /\ c.s3Client # NilSub
    /\ c.iamClient.svc = "iam" /\ c.stsClient.svc = "sts"
    /\ c.s3Client.svc = "s3"
    /\ c.stsClient.sess # NilSession
    /\ c.iamClient.sess = c.stsClient.sess
    /\ c.s3Client.sess = c.stsClient.sess

\* a constructor call has returned to its caller
Returned == call.ctor # "none" /\ ~call.panicked

\* C1: whenever the credential probe of NewAwsClient fails, whatever the
\* kind or code of its error, the constructor returns a nil client and the
\* probe error wrapped with "Could not create AWS session".
C1_ProbeFailureIsReturnedWrapped ==
    (call.ctor = "NewAwsClient" /\ call.trace.probed
        /\ call.trace.probeErr # NilErr)
    => /\ ~call.panicked
       /\ call.client = NilClient
       /\ call.err = WrappedSessionError(call.trace.probeErr)

\* C2: every return of either constructor is either a whole client (three
\* non-nil sub-clients built from the same session) with a nil error, or a
\* nil client with a non-nil error; and a client is never returned when
\* session construction or the credential probe failed.
C2_ClientOrErrorNeverBoth ==
    Returned
    => /\ \/ /\ call.err = NilErr
             /\ WholeClient(call.client)
          \/ /\ call.client = NilClient
             /\ call.err # NilErr
       /\ call.client # NilClient
            => call.trace.sessErr = NilErr /\ call.trace.probeErr = NilErr

\* C3: a forwarding method passes the caller's input to the sub-client
\* unchanged and returns exactly the response and the error the sub-client
\* returned.
C3_PassThrough ==
    last.method # "none"
    => /\ last.calls # <<>>
       /\ \A i \in 1..Len(last.calls) : last.calls[i].input = last.input
       /\ last.resp = last.reply.resp
       /\ last.err = last.reply.err

C3_Witness ==
    /\ last.method = "DeleteObjects"
    /\ last.input = "in1"
    /\ last.reply.err = AwsErr("AccessDenied")
    /\ last.err = AwsErr("AccessDenied")
    /\ last.resp = "out1"

\* C4: every construction failure of NewAwsClient (path resolution, session
\* creation, credential probe) is returned to the caller as a wrapped error
\* with a nil client; none escapes as a panic or as an unwrapped error.
C4_EveryFailureIsReturnedWrapped ==
    (call.ctor = "NewAwsClient"
        /\ \/ call.trace.absErr # NilErr
           \/ call.trace.sessErr # NilErr
           \/ call.trace.probeErr # NilErr)
    => /\ ~call.panicked
       /\ call.client = NilClient
       /\ call.err.kind = "wrapped"

RECURSIVE Walk(_, _)
\* the directory reached from the directory `at` (its elements below the
\* root) by following the path elements `segs`
Walk(at, segs) ==
    IF segs = <<>> THEN at
    ELSE LET e == Head(segs)
         IN  IF e = "." THEN Walk(at, Tail(segs))
             ELSE IF e = ".."
             THEN Walk(IF at = <<>> THEN at ELSE SubSeq(at, 1, Len(at) - 1),
                       Tail(segs))
             ELSE Walk(Append(at, e), Tail(segs))

\* the absolute form of path p: the rooted path, free of "." and "..", of
\* what p names, a relative p being taken from the working directory
AbsoluteForm(p, wdRead) ==
    [abs |-> TRUE,
     segs |-> IF p.abs THEN Walk(<<>>, p.segs) ELSE Walk(wdRead[1].segs, p.segs)]

\* C5: with a non-empty configFile, NewAwsClient resolves the path before
\* it creates the session: session creation is given exactly one shared
\* config file, the absolute form of configFile (never the relative path as
\* supplied), and is not reached when the resolution fails.
C5_ConfigFileResolvedBeforeSession ==
    (call.ctor = "NewAwsClient" /\ call.args.configFile # EmptyPath)
    => /\ call.trace.absCalled
       /\ call.trace.absErr # NilErr => call.trace.sessCfg = <<>>
       /\ call.trace.sessCfg # <<>>
            => LET files == call.trace.sessCfg[1].SharedConfigFiles
               IN  /\ call.trace.absErr = NilErr
                   /\ Len(files) = 1
                   /\ files[1].abs
                   /\ files[1] =
                        AbsoluteForm(call.args.configFile, call.trace.wdRead)
                   /\ ~call.args.configFile.abs
                        => files[1] # call.args.configFile

C5_Witness ==
    /\ call.ctor = "NewAwsClient"
    /\ call.args.configFile = [abs |-> FALSE, segs |-> <<"..", "a">>]
    /\ call.trace.sessCfg # <<>>
    /\ call.trace.sessCfg[1].SharedConfigFiles =
         <<[abs |-> TRUE, segs |-> <<"home", "a">>]>>
    /\ call.client # NilClient

\* C6: with an empty configFile, NewAwsClient creates the session with no
\* shared config file set, and with the profile and the region of its
\* arguments.
C6_EmptyConfigFileSetsNoOption ==
    (call.ctor = "NewAwsClient" /\ call.args.configFile = EmptyPath)
    => /\ ~call.trace.absCalled
       /\ call.trace.sessCfg # <<>>
       /\ call.trace.sessCfg[1].SharedConfigFiles = <<>>
       /\ call.trace.sessCfg[1].Profile = call.args.profile
       /\ call.trace.sessCfg[1].Region = call.args.region

C6_Witness ==
    /\ call.ctor = "NewAwsClient"
    /\ call.args.configFile = EmptyPath
    /\ call.args.profile = "osd"
    /\ call.trace.sessCfg # <<>>
    /\ call.trace.sessCfg[1].Profile = "osd"
    /\ call.client # NilClient

\* C7: NewAwsClientWithInput, given credentials and a region, never probes
\* the credentials; it returns a client and a nil error whenever session
\* construction succeeds, and its only failure is the session construction
\* error, returned as it is with a nil client.
C7_StaticConstructorOnlyFailsOnSession ==
    (call.ctor = "NewAwsClientWithInput" /\ call.args # NilInput)
    => /\ ~call.trace.probed
       /\ ~call.panicked
       /\ call.trace.sessCfg # <<>>
       /\ call.trace.sessErr = NilErr
            => /\ call.err = NilErr
               /\ WholeClient(call.client)
       /\ call.trace.sessErr # NilErr
            => call.client = NilClient /\ call.err = call.trace.sessErr

C7_Witness ==
    /\ call.ctor = "NewAwsClientWithInput"
    /\ call.args # NilInput
    /\ call.trace.sessErr = PlainErr("bad config")
    /\ call.err = PlainErr("bad config")
    /\ call.client = NilClient

\* C8: the facade is immutable: after any sequence of forwarding calls,
\* whatever they returned, its three sub-client fields are those it had
\* when the constructor returned.
C8_FacadeImmutable ==
    last.method # "none"
    => /\ facade # NilClient
       /\ facade = built
       /\ facade.iamClient = call.client.iamClient
       /\ facade.stsClient = call.client.stsClient
       /\ facade.s3Client = call.client.s3Client

C8_Witness ==
    /\ last.method = "AttachUserPolicy"
    /\ last.err # NilErr
    /\ facade = built
    /\ facade # NilClient

\* the service each method of interface Client belongs to
ServiceOf(m) ==
    IF m \in {"AssumeRole", "GetCallerIdentity", "GetFederationToken"}
    THEN "sts"
    ELSE IF m \in {"ListBuckets", "DeleteBucket", "ListObjects",
                   "DeleteObjects"}
    THEN "s3"
    ELSE "iam"

\* the sub-client the facade c holds for a service
SubClientOf(c, service) ==
    IF service = "sts" THEN c.stsClient
    ELSE IF service = "s3" THEN c.s3Client
    ELSE c.iamClient

\* C9: a forwarding call makes exactly one call, on the facade's sub-client
\* of the service the method belongs to, of the operation of the same
\* name; it is not repeated when the sub-client returns an error.
C9_ExactlyOneCallOnOwnSubClient ==
    last.method # "none"
    => /\ Len(last.calls) = 1
       /\ last.calls[1].op = last.method
       /\ last.calls[1].sub = SubClientOf(built, ServiceOf(last.method))
       /\ last.calls[1].sub.svc = ServiceOf(last.method)

C9_Witness ==
    /\ last.method = "ListBuckets"
    /\ last.reply.err # NilErr
    /\ Len(last.calls) = 1
    /\ last.calls[1].sub.svc = "s3"

\* C10: after the credential probe NewAwsClient returns an error only when
\* the probe's error is an awserr.Error; a non-nil probe error of another
\* kind is discarded and a client is returned with a nil error.
C10_OnlyProviderErrorsFailTheProbe ==
    (call.ctor = "NewAwsClient" /\ call.trace.probed)
    => /\ call.err # NilErr <=> call.trace.probeErr.kind = "awserr"
       /\ (call.trace.probeErr # NilErr
             /\ call.trace.probeErr.kind # "awserr")
            => /\ call.err = NilErr
               /\ WholeClient(call.client)

C10_Witness ==
    /\ call.ctor = "NewAwsClient"
    /\ call.trace.probed
    /\ call.trace.probeErr = PlainErr("credential process failed")
    /\ call.err = NilErr
    /\ call.client # NilClient

====
